---- MODULE Spec2Model ----
(***************************************************************************)
(* Model of the syntax-tree cache, the symbol resolver and the call-site   *)
(* listing of the lineCompletion backend (src/backend/main.py) and of the  *)
(* definition search of src/backend/rag.py.                                *)
(*                                                                         *)
(* State: the files on disk (owned by the environment: editors change      *)
(* them at any time), the process-wide TreeCache, and the requests being   *)
(* served by the /symbol_source handler.  The handler is an `async def`    *)
(* without any await, served by one uvicorn worker: requests queue up and  *)
(* the event loop runs one handler at a time, while the file system may    *)
(* change between any two system calls of a handler (stat, open/read).     *)
(* `search` is the text search get_funcs of rag.py has run: the name it    *)
(* looked for and how the two sides of its pipeline ended.                 *)
(***************************************************************************)
EXTENDS Integers, Sequences, FiniteSets, TLC

VARIABLES files, cache, pc, req, idx, ret, mt, tree, reads, search

vars == <<files, cache, pc, req, idx, ret, mt, tree, reads, search>>

(***************************************************************************)
(* Bounds of the model.                                                    *)
(***************************************************************************)
MaxMtime == 2     \* modification times are 0..MaxMtime
MaxLocs == 2      \* symbol locations in one request
MaxRow == 8       \* queried rows are 0..MaxRow

Paths == {"a.py", "b.py"}
Slots == {1, 2}           \* requests in flight at the same time

(***************************************************************************)
(* Strings are sequences of characters, so that Python's `in` on str is    *)
(* the substring test it is.                                               *)
(***************************************************************************)
Empty == <<>>
sAlpha == <<"a", "l", "p", "h", "a">>
sBeta == <<"b", "e", "t", "a">>
sOuter == <<"O", "u", "t", "e", "r">>
sInner == <<"I", "n", "n", "e", "r">>
sRun == <<"r", "u", "n">>
sHelper == <<"h", "e", "l", "p", "e", "r">>
sGamma == <<"g", "a", "m", "m", "a">>
sBe == <<"b", "e">>
sOut == <<"O", "u", "t">>
sG == <<"g">>
sF == <<"f">>
sH == <<"h">>
sK == <<"K">>
sX == <<"x">>
sY == <<"y">>
sA == <<"a">>
sB == <<"b">>
sS == <<"s">>
sOk == <<"o", "k">>
sObj == <<"o", "b", "j">>
sLen == <<"l", "e", "n">>
sList == <<"l", "i", "s", "t">>
sPrint == <<"p", "r", "i", "n", "t">>
sFormat == <<"f", "o", "r", "m", "a", "t">>

\* `needle in hay` of Python str
IsSubstringBroken(needle, hay) == needle = hay
IsSubstring(needle, hay) ==
    \E k \in 0..(Len(hay) - Len(needle)) :
        SubSeq(hay, k + 1, k + Len(needle)) = needle

(***************************************************************************)
(* Points and spans: (row, column), compared lexicographically; the end    *)
(* of a span is exclusive.                                                 *)
(***************************************************************************)
PtLt(a, b) == a[1] < b[1] \/ (a[1] = b[1] /\ a[2] < b[2])
PtLe(a, b) == a = b \/ PtLt(a, b)

(***************************************************************************)
(* Parsing.  A tree is an arena of the named nodes of the concrete syntax  *)
(* tree in document order; `parent` is an index (0 for the root), `name`   *)
(* the index of the node's name child (0 when it has none) and `text` the  *)
(* text of an identifier.  Three file contents are modelled:               *)
(*                                                                         *)
(*   content 1            content 2                  content 3             *)
(*   0 def alpha():       0 class Outer:             (the empty file)      *)
(*   1  x = 1             1  class Inner:                                  *)
(*   2  return x + 1      2   def run(self):                               *)
(*   3 import os          3    return g()                                  *)
(*   4 def beta():        4  def beta(self):                               *)
(*   5  # def gamma(      5   def helper():                                *)
(*   6  return 2          6    pass                                        *)
(*                        7   return helper()                              *)
(***************************************************************************)
Contents == {1, 2, 3}

Nd(kind, parent, s, e, name, text) ==
    [kind |-> kind, parent |-> parent, s |-> s, e |-> e, name |-> name, text |-> text]

Tree1 == <<
    Nd("module", 0, <<0, 0>>, <<7, 0>>, 0, Empty),                    \* 1
    Nd("function_definition", 1, <<0, 0>>, <<2, 13>>, 3, Empty),      \* 2 alpha
    Nd("identifier", 2, <<0, 4>>, <<0, 9>>, 0, sAlpha),               \* 3
    Nd("parameters", 2, <<0, 9>>, <<0, 11>>, 0, Empty),               \* 4
    Nd("block", 2, <<1, 1>>, <<2, 13>>, 0, Empty),                    \* 5
    Nd("expression_statement", 5, <<1, 1>>, <<1, 6>>, 0, Empty),      \* 6
    Nd("return_statement", 5, <<2, 1>>, <<2, 13>>, 0, Empty),         \* 7
    Nd("import_statement", 1, <<3, 0>>, <<3, 9>>, 0, Empty),          \* 8
    Nd("function_definition", 1, <<4, 0>>, <<6, 9>>, 10, Empty),      \* 9 beta
    Nd("identifier", 9, <<4, 4>>, <<4, 8>>, 0, sBeta),                \* 10
    Nd("parameters", 9, <<4, 8>>, <<4, 10>>, 0, Empty),               \* 11
    Nd("comment", 9, <<5, 1>>, <<5, 13>>, 0, Empty),                  \* 12
    Nd("block", 9, <<6, 1>>, <<6, 9>>, 0, Empty),                     \* 13
    Nd("return_statement", 13, <<6, 1>>, <<6, 9>>, 0, Empty)          \* 14
>>

Tree2 == <<
    Nd("module", 0, <<0, 0>>, <<8, 0>>, 0, Empty),                    \* 1
    Nd("class_definition", 1, <<0, 0>>, <<7, 17>>, 3, Empty),         \* 2 Outer
    Nd("identifier", 2, <<0, 6>>, <<0, 11>>, 0, sOuter),              \* 3
    Nd("block", 2, <<1, 1>>, <<7, 17>>, 0, Empty),                    \* 4
    Nd("class_definition", 4, <<1, 1>>, <<3, 13>>, 6, Empty),         \* 5 Inner
    Nd("identifier", 5, <<1, 7>>, <<1, 12>>, 0, sInner),              \* 6
    Nd("block", 5, <<2, 2>>, <<3, 13>>, 0, Empty),                    \* 7
    Nd("function_definition", 7, <<2, 2>>, <<3, 13>>, 9, Empty),      \* 8 run
    Nd("identifier", 8, <<2, 6>>, <<2, 9>>, 0, sRun),                 \* 9
    Nd("parameters", 8, <<2, 9>>, <<2, 15>>, 0, Empty),               \* 10
    Nd("block", 8, <<3, 3>>, <<3, 13>>, 0, Empty),                    \* 11
    Nd("return_statement", 11, <<3, 3>>, <<3, 13>>, 0, Empty),        \* 12
    Nd("call", 12, <<3, 10>>, <<3, 13>>, 0, Empty),                   \* 13
    Nd("identifier", 13, <<3, 10>>, <<3, 11>>, 0, sG),                \* 14
    Nd("argument_list", 13, <<3, 11>>, <<3, 13>>, 0, Empty),          \* 15
    Nd("function_definition", 4, <<4, 1>>, <<7, 17>>, 17, Empty),     \* 16 beta
    Nd("identifier", 16, <<4, 5>>, <<4, 9>>, 0, sBeta),               \* 17
    Nd("parameters", 16, <<4, 9>>, <<4, 15>>, 0, Empty),              \* 18
    Nd("block", 16, <<5, 2>>, <<7, 17>>, 0, Empty),                   \* 19
    Nd("function_definition", 19, <<5, 2>>, <<6, 7>>, 21, Empty),     \* 20 helper
    Nd("identifier", 20, <<5, 6>>, <<5, 12>>, 0, sHelper),            \* 21
    Nd("parameters", 20, <<5, 12>>, <<5, 14>>, 0, Empty),             \* 22
    Nd("block", 20, <<6, 3>>, <<6, 7>>, 0, Empty),                    \* 23
    Nd("pass_statement", 23, <<6, 3>>, <<6, 7>>, 0, Empty),           \* 24
    Nd("return_statement", 19, <<7, 2>>, <<7, 17>>, 0, Empty),        \* 25
    Nd("call", 25, <<7, 9>>, <<7, 17>>, 0, Empty),                    \* 26
    Nd("identifier", 26, <<7, 9>>, <<7, 15>>, 0, sHelper),            \* 27
    Nd("argument_list", 26, <<7, 15>>, <<7, 17>>, 0, Empty)           \* 28
>>

Tree3 == << Nd("module", 0, <<0, 0>>, <<0, 0>>, 0, Empty) >>

(***************************************************************************)
(* Content 4 holds four lines that match a search for `def run(`; content  *)
(* 7 stands for a file whose tree has a definition without a name child.   *)
(*                                                                         *)
(*   content 4            content 7                                        *)
(*   0 def run(a,         0 def (x):                                       *)
(*   1         b):        1  pass                                          *)
(*   2  # def run(        2 def ok():                                      *)
(*   3  return a          3  pass                                          *)
(*   4 class K:                                                            *)
(*   5  def run(self):                                                     *)
(*   6   pass                                                              *)
(*   7 def run(): pass                                                     *)
(***************************************************************************)
Tree4 == <<
    Nd("module", 0, <<0, 0>>, <<8, 0>>, 0, Empty),                    \* 1
    Nd("function_definition", 1, <<0, 0>>, <<3, 9>>, 3, Empty),       \* 2 run
    Nd("identifier", 2, <<0, 4>>, <<0, 7>>, 0, sRun),                 \* 3
    Nd("parameters", 2, <<0, 7>>, <<1, 11>>, 0, Empty),               \* 4
    Nd("comment", 2, <<2, 1>>, <<2, 11>>, 0, Empty),                  \* 5
    Nd("block", 2, <<3, 1>>, <<3, 9>>, 0, Empty),                     \* 6
    Nd("return_statement", 6, <<3, 1>>, <<3, 9>>, 0, Empty),          \* 7
    Nd("class_definition", 1, <<4, 0>>, <<6, 6>>, 9, Empty),          \* 8 K
    Nd("identifier", 8, <<4, 6>>, <<4, 7>>, 0, sK),                   \* 9
    Nd("block", 8, <<5, 1>>, <<6, 6>>, 0, Empty),                     \* 10
    Nd("function_definition", 10, <<5, 1>>, <<6, 6>>, 12, Empty),     \* 11 run
    Nd("identifier", 11, <<5, 5>>, <<5, 8>>, 0, sRun),                \* 12
    Nd("parameters", 11, <<5, 8>>, <<5, 14>>, 0, Empty),              \* 13
    Nd("block", 11, <<6, 2>>, <<6, 6>>, 0, Empty),                    \* 14
    Nd("pass_statement", 14, <<6, 2>>, <<6, 6>>, 0, Empty),           \* 15
    Nd("function_definition", 1, <<7, 0>>, <<7, 15>>, 17, Empty),     \* 16 run
    Nd("identifier", 16, <<7, 4>>, <<7, 7>>, 0, sRun),                \* 17
    Nd("parameters", 16, <<7, 7>>, <<7, 9>>, 0, Empty),               \* 18
    Nd("block", 16, <<7, 11>>, <<7, 15>>, 0, Empty),                  \* 19
    Nd("pass_statement", 19, <<7, 11>>, <<7, 15>>, 0, Empty)          \* 20
>>

Tree7 == <<
    Nd("module", 0, <<0, 0>>, <<4, 0>>, 0, Empty),                    \* 1
    Nd("function_definition", 1, <<0, 0>>, <<1, 5>>, 0, Empty),       \* 2
    Nd("parameters", 2, <<0, 4>>, <<0, 7>>, 0, Empty),                \* 3
    Nd("block", 2, <<1, 1>>, <<1, 5>>, 0, Empty),                     \* 4
    Nd("pass_statement", 4, <<1, 1>>, <<1, 5>>, 0, Empty),            \* 5
    Nd("function_definition", 1, <<2, 0>>, <<3, 5>>, 7, Empty),       \* 6 ok
    Nd("identifier", 6, <<2, 4>>, <<2, 6>>, 0, sOk),                  \* 7
    Nd("parameters", 6, <<2, 6>>, <<2, 8>>, 0, Empty),                \* 8
    Nd("block", 6, <<3, 1>>, <<3, 5>>, 0, Empty),                     \* 9
    Nd("pass_statement", 9, <<3, 1>>, <<3, 5>>, 0, Empty)             \* 10
>>

(***************************************************************************)
(* Contents 5 and 6 hold calls: direct and attribute calls, nested calls,  *)
(* a name called three times, and calls of built-in names only.            *)
(*                                                                         *)
(*   content 5            content 6                                        *)
(*   0 print(f(1))        0 print(len(x))                                  *)
(*   1 obj.f(len(y))      1 s.format(list())                               *)
(*   2 f(2)                                                                *)
(*   3 a.b.print(g)                                                        *)
(*   4 h()()                                                               *)
(***************************************************************************)
Tree5 == <<
    Nd("module", 0, <<0, 0>>, <<5, 0>>, 0, Empty),                    \* 1
    Nd("expression_statement", 1, <<0, 0>>, <<0, 11>>, 0, Empty),     \* 2
    Nd("call", 2, <<0, 0>>, <<0, 11>>, 0, Empty),                     \* 3
    Nd("identifier", 3, <<0, 0>>, <<0, 5>>, 0, sPrint),               \* 4
    Nd("argument_list", 3, <<0, 5>>, <<0, 11>>, 0, Empty),            \* 5
    Nd("call", 5, <<0, 6>>, <<0, 10>>, 0, Empty),                     \* 6
    Nd("identifier", 6, <<0, 6>>, <<0, 7>>, 0, sF),                   \* 7
    Nd("argument_list", 6, <<0, 7>>, <<0, 10>>, 0, Empty),            \* 8
    Nd("integer", 8, <<0, 8>>, <<0, 9>>, 0, Empty),                   \* 9
    Nd("expression_statement", 1, <<1, 0>>, <<1, 13>>, 0, Empty),     \* 10
    Nd("call", 10, <<1, 0>>, <<1, 13>>, 0, Empty),                    \* 11
    Nd("attribute", 11, <<1, 0>>, <<1, 5>>, 0, Empty),                \* 12
    Nd("identifier", 12, <<1, 0>>, <<1, 3>>, 0, sObj),                \* 13
    Nd("identifier", 12, <<1, 4>>, <<1, 5>>, 0, sF),                  \* 14
    Nd("argument_list", 11, <<1, 5>>, <<1, 13>>, 0, Empty),           \* 15
    Nd("call", 15, <<1, 6>>, <<1, 12>>, 0, Empty),                    \* 16
    Nd("identifier", 16, <<1, 6>>, <<1, 9>>, 0, sLen),                \* 17
    Nd("argument_list", 16, <<1, 9>>, <<1, 12>>, 0, Empty),           \* 18
    Nd("identifier", 18, <<1, 10>>, <<1, 11>>, 0, sY),                \* 19
    Nd("expression_statement", 1, <<2, 0>>, <<2, 4>>, 0, Empty),      \* 20
    Nd("call", 20, <<2, 0>>, <<2, 4>>, 0, Empty),                     \* 21
    Nd("identifier", 21, <<2, 0>>, <<2, 1>>, 0, sF),                  \* 22
    Nd("argument_list", 21, <<2, 1>>, <<2, 4>>, 0, Empty),            \* 23
    Nd("integer", 23, <<2, 2>>, <<2, 3>>, 0, Empty),                  \* 24
    Nd("expression_statement", 1, <<3, 0>>, <<3, 12>>, 0, Empty),     \* 25
    Nd("call", 25, <<3, 0>>, <<3, 12>>, 0, Empty),                    \* 26
    Nd("attribute", 26, <<3, 0>>, <<3, 9>>, 0, Empty),                \* 27
    Nd("attribute", 27, <<3, 0>>, <<3, 3>>, 0, Empty),                \* 28
    Nd("identifier", 28, <<3, 0>>, <<3, 1>>, 0, sA),                  \* 29
    Nd("identifier", 28, <<3, 2>>, <<3, 3>>, 0, sB),                  \* 30
    Nd("identifier", 27, <<3, 4>>, <<3, 9>>, 0, sPrint),              \* 31
    Nd("argument_list", 26, <<3, 9>>, <<3, 12>>, 0, Empty),           \* 32
    Nd("identifier", 32, <<3, 10>>, <<3, 11>>, 0, sG),                \* 33
    Nd("expression_statement", 1, <<4, 0>>, <<4, 5>>, 0, Empty),      \* 34
    Nd("call", 34, <<4, 0>>, <<4, 5>>, 0, Empty),                     \* 35
    Nd("call", 35, <<4, 0>>, <<4, 3>>, 0, Empty),                     \* 36
    Nd("identifier", 36, <<4, 0>>, <<4, 1>>, 0, sH),                  \* 37
    Nd("argument_list", 36, <<4, 1>>, <<4, 3>>, 0, Empty),            \* 38
    Nd("argument_list", 35, <<4, 3>>, <<4, 5>>, 0, Empty)             \* 39
>>

Tree6 == <<
    Nd("module", 0, <<0, 0>>, <<2, 0>>, 0, Empty),                    \* 1
    Nd("expression_statement", 1, <<0, 0>>, <<0, 13>>, 0, Empty),     \* 2
    Nd("call", 2, <<0, 0>>, <<0, 13>>, 0, Empty),                     \* 3
    Nd("identifier", 3, <<0, 0>>, <<0, 5>>, 0, sPrint),               \* 4
    Nd("argument_list", 3, <<0, 5>>, <<0, 13>>, 0, Empty),            \* 5
    Nd("call", 5, <<0, 6>>, <<0, 12>>, 0, Empty),                     \* 6
    Nd("identifier", 6, <<0, 6>>, <<0, 9>>, 0, sLen),                 \* 7
    Nd("argument_list", 6, <<0, 9>>, <<0, 12>>, 0, Empty),            \* 8
    Nd("identifier", 8, <<0, 10>>, <<0, 11>>, 0, sX),                 \* 9
    Nd("expression_statement", 1, <<1, 0>>, <<1, 16>>, 0, Empty),     \* 10
    Nd("call", 10, <<1, 0>>, <<1, 16>>, 0, Empty),                    \* 11
    Nd("attribute", 11, <<1, 0>>, <<1, 8>>, 0, Empty),                \* 12
    Nd("identifier", 12, <<1, 0>>, <<1, 1>>, 0, sS),                  \* 13
    Nd("identifier", 12, <<1, 2>>, <<1, 8>>, 0, sFormat),             \* 14
    Nd("argument_list", 11, <<1, 8>>, <<1, 16>>, 0, Empty),           \* 15
    Nd("call", 15, <<1, 9>>, <<1, 15>>, 0, Empty),                    \* 16
    Nd("identifier", 16, <<1, 9>>, <<1, 13>>, 0, sList),              \* 17
    Nd("argument_list", 16, <<1, 13>>, <<1, 15>>, 0, Empty)           \* 18
>>

\* parser.parse(source_code): the nodes of the tree of a file content
Parse(c) ==
    CASE c = 1 -> Tree1 [] c = 2 -> Tree2 [] c = 4 -> Tree4 [] c = 5 -> Tree5
      [] c = 6 -> Tree6 [] c = 7 -> Tree7 [] OTHER -> Tree3

\* node.text of a node that is not an identifier: the slice of the source
\* between the node's start and end
NodeText(c, n) == [src |-> c, from |-> Parse(c)[n].s, to |-> Parse(c)[n].e]

(***************************************************************************)
(* Node queries of the tree library, as the handlers use them.             *)
(***************************************************************************)
Children(t, n) == {k \in 1..Len(t) : t[k].parent = n}

MinOf(S) == CHOOSE x \in S : \A y \in S : x <= y

\* The descent of named_descendant_for_point_range: from a node, enter the
\* first child that ends at or after the range's end and after its start,
\* unless that child starts after the range's start; stop when none does.
RECURSIVE Descend(_, _, _, _)
Descend(t, n, s, e) ==
    LET cands == {k \in Children(t, n) : ~PtLt(t[k].e, e) /\ ~PtLe(t[k].e, s)}
    IN  IF cands = {} THEN n
        ELSE LET c == MinOf(cands)
             IN  IF PtLt(s, t[c].s) THEN n ELSE Descend(t, c, s, e)

\* the mutant looks the start of the range up and ignores its end
NamedDescendantAtStart(t, s, e) == Descend(t, 1, s, s)
\* root_node.named_descendant_for_point_range(start, end): never None
NamedDescendantForPointRange(t, s, e) == Descend(t, 1, s, e)

TargetNodeTypes == {"function_definition", "class_definition"}

\* while node and node.type not in kinds: node = node.parent   (0 is None)
RECURSIVE WalkUpCopy(_, _, _)
WalkUpCopy(t, n, kinds) ==
    IF n = 0 THEN 0
    ELSE IF t[n].kind \in kinds THEN n
    ELSE WalkUpCopy(t, t[n].parent, kinds)
\* the mutant starts the walk at the node's parent
WalkUpFromParent(t, n, kinds) == WalkUpCopy(t, t[n].parent, kinds)
RECURSIVE WalkUp(_, _, _)
WalkUp(t, n, kinds) ==
    IF n = 0 THEN 0
    ELSE IF t[n].kind \in kinds THEN n
    ELSE WalkUp(t, t[n].parent, kinds)

\* parent = node.parent; while parent: if parent is a class: node = parent;
\* parent = parent.parent
RECURSIVE WidenLoop(_, _, _)
WidenLoop(t, node, parent) ==
    IF parent = 0 THEN node
    ELSE WidenLoop(t, IF t[parent].kind = "class_definition" THEN parent ELSE node,
                   t[parent].parent)

\* the mutant stops at the nearest class
WidenNearest(t, node) ==
    LET c == WalkUpCopy(t, t[node].parent, {"class_definition"})
    IN  IF c = 0 THEN node ELSE c
WidenToClass(t, node) == WidenLoop(t, node, t[node].parent)

(***************************************************************************)
(* The call-site query and the loop of the `symbols` handler.              *)
(***************************************************************************)
\* builtin_names: the names of dir(builtins) bound to built-in functions and
\* classes; of these, the ones the modelled contents mention
BuiltinNames == {sPrint, sLen, sList, sFormat}

MaxOf(S) == CHOOSE x \in S : \A y \in S : y <= x

\* The capture @function_name of a call node: the `function` child when it
\* is an identifier, the `attribute` child of the `function` child when
\* that is an attribute, and no match (0) for any other callee.
FunctionName(t, n) ==
    IF Children(t, n) = {} THEN 0
    ELSE LET f == MinOf(Children(t, n))
         IN  IF t[f].kind = "identifier" THEN f
             ELSE IF t[f].kind = "attribute" THEN MaxOf(Children(t, f))
             ELSE 0

\* cursor.matches(tree.root_node): one match per call node the query fits,
\* in document order; a match is given by its captured identifier
RECURSIVE MatchesFrom(_, _)
MatchesFrom(t, n) ==
    IF n > Len(t) THEN <<>>
    ELSE IF t[n].kind = "call" /\ FunctionName(t, n) # 0
         THEN <<FunctionName(t, n)>> \o MatchesFrom(t, n + 1)
         ELSE MatchesFrom(t, n + 1)

GetCalledFunctionsAndClasses(c) == MatchesFrom(Parse(c), 1)

ContextLocation(path, sl, el) == [path |-> path, start_line |-> sl, end_line |-> el]

\* the mutant filters nothing
IsBuiltinNever(name) == FALSE
\* name in builtin_names
IsBuiltin(name) == name \in BuiltinNames

\* the mutant treats end_line as exclusive
OutOfRangeOpenEnd(row, ctx) == row < ctx.start_line \/ row >= ctx.end_line
\* match.start_point.row < start_line or match.start_point.row > end_line
OutOfRange(row, ctx) == row < ctx.start_line \/ row > ctx.end_line

\* (name, match.start_point.row, match.start_point.column)
CallSite(t, n) == <<t[n].text, t[n].s[1], t[n].s[2]>>

\* the mutant keeps one call site per name
AppendUnique(symbols, e) ==
    IF \E i \in 1..Len(symbols) : symbols[i][1] = e[1] THEN symbols
    ELSE Append(symbols, e)
\* symbols.append(...)
AppendSymbol(symbols, e) == Append(symbols, e)

\* for match in matches: ... of `symbols`
RECURSIVE SymbolsLoop(_, _, _, _)
SymbolsLoop(t, matches, ctx, symbols) ==
    IF matches = <<>> THEN symbols
    ELSE LET match == Head(matches)
         IN  IF IsBuiltin(t[match].text)
             THEN SymbolsLoop(t, Tail(matches), ctx, symbols)
             ELSE IF OutOfRange(t[match].s[1], ctx)
             THEN SymbolsLoop(t, Tail(matches), ctx, symbols)
             ELSE SymbolsLoop(t, Tail(matches), ctx,
                              AppendSymbol(symbols, CallSite(t, match)))

\* A symbol location of a request and an entry of the response
Loc(name, path, sl, sc, el, ec, x) ==
    [name |-> name, path |-> path, startLine |-> sl, startCol |-> sc,
     endLine |-> el, endCol |-> ec, expand_to_class |-> x]

Entry(c, n) ==
    [start_line |-> Parse(c)[n].s[1], start_col |-> Parse(c)[n].s[2],
     text |-> NodeText(c, n)]

Miss == [kind |-> "miss"]
Raise == [kind |-> "raise"]
Found(e) == [kind |-> "found", entry |-> e]

\* the mutant widens first and tests the hint on the name of the result
ResolveLocWidenFirst(c, loc) ==
    LET t == Parse(c)
        node == WalkUp(t, NamedDescendantForPointRange(t,
                           <<loc.startLine, loc.startCol>>,
                           <<loc.endLine, loc.endCol>>), TargetNodeTypes)
        wide == IF node # 0 /\ t[node].kind = "function_definition" /\ loc.expand_to_class
                THEN WidenToClass(t, node) ELSE node
    IN  IF node = 0 THEN Miss
        ELSE IF t[wide].name = 0 THEN Raise
        ELSE IF loc.name # Empty /\ ~IsSubstring(loc.name, t[t[wide].name].text)
             THEN Miss
        ELSE Found(Entry(c, wide))

\* the mutant widens whatever definition the walk found, a class too
ResolveLocWidenAll(c, loc) ==
    LET t == Parse(c)
        node == WalkUp(t, NamedDescendantForPointRange(t,
                           <<loc.startLine, loc.startCol>>,
                           <<loc.endLine, loc.endCol>>), TargetNodeTypes)
    IN  IF node = 0 THEN Miss
        ELSE IF t[node].name = 0 THEN Raise
        ELSE IF loc.name # Empty /\ ~IsSubstring(loc.name, t[t[node].name].text)
             THEN Miss
        ELSE IF loc.expand_to_class
             THEN Found(Entry(c, WidenToClass(t, node)))
        ELSE Found(Entry(c, node))

\* the mutant has no test for a walk that found no definition
ResolveLocUnchecked(c, loc) ==
    LET t == Parse(c)
        node == WalkUp(t, NamedDescendantForPointRange(t,
                           <<loc.startLine, loc.startCol>>,
                           <<loc.endLine, loc.endCol>>), TargetNodeTypes)
    IN  IF node = 0 THEN Raise
        ELSE IF t[node].name = 0 THEN Raise
        ELSE IF loc.name # Empty /\ ~IsSubstring(loc.name, t[t[node].name].text)
             THEN Miss
        ELSE IF t[node].kind = "function_definition" /\ loc.expand_to_class
             THEN Found(Entry(c, WidenToClass(t, node)))
        ELSE Found(Entry(c, node))

\* The body of the loop of symbol_source after tree_cache.get, on the tree
\* of content c: a miss (`continue`), an entry to append, or an exception
\* (the definition has no name child: None.text).
ResolveLoc(c, loc) ==
    LET t == Parse(c)
        node == WalkUp(t, NamedDescendantForPointRange(t,
                           <<loc.startLine, loc.startCol>>,
                           <<loc.endLine, loc.endCol>>), TargetNodeTypes)
    IN  IF node = 0 THEN Miss
        ELSE IF t[node].name = 0 THEN Raise
        ELSE IF loc.name # Empty /\ ~IsSubstring(loc.name, t[t[node].name].text)
             THEN Miss
        ELSE IF t[node].kind = "function_definition" /\ loc.expand_to_class
             THEN Found(Entry(c, WidenToClass(t, node)))
        ELSE Found(Entry(c, node))

(***************************************************************************)
(* The state.                                                              *)
(*   files[p]   the file at path p: whether it exists, its content, mtime  *)
(*              (see File below)                                           *)
(*   cache[p]   TreeCache.cache: NoEntry, or (mtime, tree)                 *)
(*   pc[s]      where request s is: idle, queued (received, waiting for    *)
(*              the event loop), stat (about to call tree_cache.get),      *)
(*              read (in get, after the stat, before the open), done       *)
(*              (returned ret), ioerror / raised (ended by an exception)   *)
(*   req, idx, ret, mt, tree   the locals of the handler and of get:       *)
(*              symbol_locations, the loop's position, ret,                *)
(*              file_modified_time and tree                                *)
(*   reads[s]   how many times request s has read a file's content         *)
(***************************************************************************)
File(x, c, m, q) == [exists |-> x, content |-> c, mtime |-> m, quiet |-> q]

NoTree == [id |-> 0, src |-> 0]
\* no search is running: get_funcs has not been called
NoSearch == [name |-> Empty, rg |-> "none", jq |-> "none"]
NoEntry == [mtime |-> -1, tree |-> NoTree]

Running == {"stat", "read"}
Ended == {"done", "ioerror", "raised"}

\* Requests of at most n locations drawn from the set L
RECURSIVE SeqsUpTo(_, _)
SeqsUpTo(L, n) ==
    IF n = 0 THEN {<<>>}
    ELSE LET shorter == SeqsUpTo(L, n - 1)
         IN  shorter \cup {Append(q, l) : q \in {x \in shorter : Len(x) = n - 1}, l \in L}

\* Locations of the requests made while the files change: a range in the
\* second line of a file
\* The contents the files take while they change
CacheContents == {1, 2}

CacheLocs == {Loc(Empty, p, 1, 1, 1, 3, FALSE) : p \in Paths}
CacheReqs == SeqsUpTo(CacheLocs, 1)

Init ==
    /\ files \in [Paths -> {File(TRUE, c, 0, FALSE) : c \in CacheContents}]
    /\ cache = [p \in Paths |-> NoEntry]
    /\ pc = [s \in Slots |-> "idle"]
    /\ req = [s \in Slots |-> <<>>]
    /\ idx = [s \in Slots |-> 0]
    /\ ret = [s \in Slots |-> <<>>]
    /\ mt = [s \in Slots |-> 0]
    /\ tree = [s \in Slots |-> NoTree]
    /\ reads = [s \in Slots |-> 0]
    /\ search = [s \in Slots |-> NoSearch]

(***************************************************************************)
(* The environment: editors and other processes change the files.  A       *)
(* write gives the file a later modification time, unless it falls into    *)
(* the same tick of the file system's clock as the file's last change:     *)
(* then the content changes and the modification time does not (`quiet`    *)
(* records that the content is newer than the modification time tells).    *)
(* A deleted file keeps its record for the time of its last change only.   *)
(***************************************************************************)
ModifyFile(p, c) ==
    /\ files[p].exists
    /\ files[p].mtime < MaxMtime
    /\ files' = [files EXCEPT ![p] = File(TRUE, c, files[p].mtime + 1, FALSE)]
    /\ UNCHANGED <<cache, pc, req, idx, ret, mt, tree, reads, search>>

WriteSameTick(p, c) ==
    /\ files[p].exists
    /\ c # files[p].content
    /\ files' = [files EXCEPT ![p] = File(TRUE, c, files[p].mtime, TRUE)]
    /\ UNCHANGED <<cache, pc, req, idx, ret, mt, tree, reads, search>>

DeleteFile(p) ==
    /\ files[p].exists
    /\ files' = [files EXCEPT ![p] = File(FALSE, 0, files[p].mtime, FALSE)]
    /\ UNCHANGED <<cache, pc, req, idx, ret, mt, tree, reads, search>>

CreateFile(p, c) ==
    /\ ~files[p].exists
    /\ files[p].mtime < MaxMtime
    /\ files' = [files EXCEPT ![p] = File(TRUE, c, files[p].mtime + 1, FALSE)]
    /\ UNCHANGED <<cache, pc, req, idx, ret, mt, tree, reads, search>>

(***************************************************************************)
(* The server.                                                             *)
(***************************************************************************)
\* A request is received and waits for the event loop.  It takes the first
\* free slot.
Arrive(s) ==
    /\ pc[s] = "idle"
    /\ \A t \in Slots : t < s => pc[t] # "idle"
    /\ pc' = [pc EXCEPT ![s] = "queued"]
    /\ UNCHANGED <<files, cache, req, idx, ret, mt, tree, reads, search>>

\* `async def` handlers without an await run one at a time on the event
\* loop (a plain `def` handler would run in the thread pool): the task of a
\* request runs from the entry of the handler to the sending of its
\* response before the loop enters the handler for the next request.
ThreadPool(s) == TRUE
EventLoopFree(s) == \A t \in Slots \ {s} : pc[t] \notin Running \cup Ended

\* The handler is entered with its request: ret = []
Begin(s, Reqs) ==
    /\ pc[s] = "queued"
    /\ EventLoopFree(s)
    /\ \E r \in Reqs :
        /\ req' = [req EXCEPT ![s] = r]
        /\ pc' = [pc EXCEPT ![s] = IF r = <<>> THEN "done" ELSE "stat"]
    /\ idx' = [idx EXCEPT ![s] = 1]
    /\ ret' = [ret EXCEPT ![s] = <<>>]
    /\ UNCHANGED <<files, cache, mt, tree, reads, search>>

\* `filepath in self.cache and file_modified_time <= self.cache[filepath][0]`
IsHitNoMtime(p, m) == cache[p] # NoEntry
IsHitFlipped(p, m) == cache[p] # NoEntry /\ m >= cache[p].mtime
IsHitStrict(p, m) == cache[p] # NoEntry /\ m < cache[p].mtime
IsHit(p, m) == cache[p] # NoEntry /\ m <= cache[p].mtime

\* ret.append(...)
AppendFirst(r, e) == <<e>> \o r
AppendEntry(r, e) == Append(r, e)

\* The rest of the loop body once get has returned tree t, and the loop's
\* next iteration or the return.
Resolved(s, t) ==
    LET out == ResolveLoc(t.src, req[s][idx[s]])
    IN  /\ tree' = [tree EXCEPT ![s] = t]
        /\ IF out = Raise
           THEN /\ pc' = [pc EXCEPT ![s] = "raised"]
                /\ UNCHANGED <<idx, ret>>
           ELSE /\ ret' = [ret EXCEPT ![s] =
                              IF out = Miss THEN @ ELSE AppendEntry(@, out.entry)]
                /\ idx' = [idx EXCEPT ![s] = @ + 1]
                /\ pc' = [pc EXCEPT ![s] =
                              IF idx[s] = Len(req[s]) THEN "done" ELSE "stat"]

\* tree_cache.get up to its first return: os.path.getmtime, then the hit
\* test; a hit returns the cached tree.  file_modified_time is kept in mt
\* while it is live (from a miss to the store).
GetStat(s) ==
    /\ pc[s] = "stat"
    /\ LET p == req[s][idx[s]].path
       IN  IF ~files[p].exists
           THEN /\ pc' = [pc EXCEPT ![s] = "ioerror"]
                /\ UNCHANGED <<cache, idx, ret, mt, tree>>
           ELSE IF IsHit(p, files[p].mtime)
           THEN /\ Resolved(s, cache[p].tree)
                /\ UNCHANGED <<cache, mt>>
           ELSE /\ pc' = [pc EXCEPT ![s] = "read"]
                /\ mt' = [mt EXCEPT ![s] = files[p].mtime]
                /\ UNCHANGED <<cache, idx, ret, tree>>
    /\ UNCHANGED <<files, req, reads, search>>

\* the mutant keeps one entry: a store drops the entries of the other paths
ReadParseStoreEvict(s) ==
    LET p == req[s][idx[s]].path
        t == [id |-> cache[p].tree.id + 1, src |-> files[p].content]
    IN  /\ reads' = [reads EXCEPT ![s] = @ + 1]
        /\ cache' = [q \in Paths |-> IF q = p THEN [mtime |-> mt[s], tree |-> t]
                                     ELSE NoEntry]
        /\ mt' = [mt EXCEPT ![s] = 0]
        /\ Resolved(s, t)

\* the mutant stores the modification time the file has when it is read
ReadParseStoreRestat(s) ==
    LET p == req[s][idx[s]].path
        t == [id |-> cache[p].tree.id + 1, src |-> files[p].content]
    IN  /\ reads' = [reads EXCEPT ![s] = @ + 1]
        /\ cache' = [cache EXCEPT ![p] = [mtime |-> files[p].mtime, tree |-> t]]
        /\ mt' = [mt EXCEPT ![s] = 0]
        /\ Resolved(s, t)

\* tree_cache.get after a miss: open and read the file, parse, store
\* (file_modified_time, tree), return the tree.  A tree object is identified
\* by its path and the number of the parse of that path that made it.
ReadParseStore(s) ==
    LET p == req[s][idx[s]].path
        t == [id |-> cache[p].tree.id + 1, src |-> files[p].content]
    IN  /\ reads' = [reads EXCEPT ![s] = @ + 1]
        /\ cache' = [cache EXCEPT ![p] = [mtime |-> mt[s], tree |-> t]]
        /\ mt' = [mt EXCEPT ![s] = 0]
        /\ Resolved(s, t)

\* the mutant puts the entry into the cache before it opens the file
GetReadStoreFirst(s) ==
    /\ pc[s] = "read"
    /\ IF ~files[req[s][idx[s]].path].exists
       THEN /\ pc' = [pc EXCEPT ![s] = "ioerror"]
            /\ cache' = [cache EXCEPT ![req[s][idx[s]].path] =
                            [mtime |-> mt[s], tree |-> NoTree]]
            /\ UNCHANGED <<idx, ret, mt, tree, reads>>
       ELSE ReadParseStore(s)
    /\ UNCHANGED <<files, req, search>>

GetRead(s) ==
    /\ pc[s] = "read"
    /\ IF ~files[req[s][idx[s]].path].exists
       THEN /\ pc' = [pc EXCEPT ![s] = "ioerror"]
            /\ UNCHANGED <<cache, idx, ret, mt, tree, reads>>
       ELSE ReadParseStore(s)
    /\ UNCHANGED <<files, req, search>>

\* The response is sent; the slot takes the next request.
Finish(s) ==
    /\ pc[s] \in Ended
    /\ pc' = [pc EXCEPT ![s] = "idle"]
    /\ req' = [req EXCEPT ![s] = <<>>]
    /\ idx' = [idx EXCEPT ![s] = 0]
    /\ ret' = [ret EXCEPT ![s] = <<>>]
    /\ mt' = [mt EXCEPT ![s] = 0]
    /\ tree' = [tree EXCEPT ![s] = NoTree]
    /\ reads' = [reads EXCEPT ![s] = 0]
    /\ search' = [search EXCEPT ![s] = NoSearch]
    /\ UNCHANGED <<files, cache>>

Next ==
    \/ \E p \in Paths, c \in CacheContents : ModifyFile(p, c)
    \/ \E p \in Paths, c \in CacheContents : WriteSameTick(p, c)
    \/ \E p \in Paths : DeleteFile(p)
    \/ \E p \in Paths, c \in CacheContents : CreateFile(p, c)
    \/ \E s \in Slots : Arrive(s)
    \/ \E s \in Slots : Begin(s, CacheReqs)
    \/ \E s \in Slots : GetStat(s)
    \/ \E s \in Slots : GetRead(s)
    \/ \E s \in Slots : Finish(s)

Spec == Init /\ [][Next]_vars

(***************************************************************************)
(* The resolver on files that do not change (specification SpecResolve):   *)
(* one request at a time, of one location drawn from a grid of ranges,     *)
(* name hints and expand_to_class flags, or of up to MaxLocs locations     *)
(* drawn from OrderLocs.                                                   *)
(***************************************************************************)
ProbeCols == {0, 1, 2, 13}
ProbePoints == (0..MaxRow) \X ProbeCols
Hints == {Empty, sRun, sBe, sOut, sGamma}

ProbeLocs ==
    {Loc(h, "a.py", a[1], a[2], b[1], b[2], x) :
        h \in Hints, a \in ProbePoints, b \in ProbePoints, x \in BOOLEAN}

OrderLocs ==
    { Loc(Empty, "a.py", 1, 1, 1, 2, FALSE),
      Loc(Empty, "a.py", 3, 0, 3, 2, FALSE),
      Loc(sGamma, "a.py", 5, 1, 5, 13, FALSE),
      Loc(Empty, "b.py", 3, 2, 3, 13, TRUE) }

ResolveReqs == {<<l>> : l \in ProbeLocs} \cup SeqsUpTo(OrderLocs, MaxLocs)

InitResolve ==
    /\ \E c \in Contents :
          files = [p \in Paths |-> File(TRUE, IF p = "a.py" THEN c ELSE 2, 0, FALSE)]
    /\ cache = [p \in Paths |-> NoEntry]
    /\ pc = [s \in Slots |-> "idle"]
    /\ req = [s \in Slots |-> <<>>]
    /\ idx = [s \in Slots |-> 0]
    /\ ret = [s \in Slots |-> <<>>]
    /\ mt = [s \in Slots |-> 0]
    /\ tree = [s \in Slots |-> NoTree]
    /\ reads = [s \in Slots |-> 0]
    /\ search = [s \in Slots |-> NoSearch]

NextResolve ==
    \/ Arrive(1)
    \/ Begin(1, ResolveReqs)
    \/ GetStat(1)
    \/ GetRead(1)
    \/ Finish(1)

SpecResolve == InitResolve /\ [][NextResolve]_vars

(***************************************************************************)
(* The specification of requests that reach a definition without a name    *)
(* child: a.py is content 7, b.py content 2, the files do not change, and  *)
(* one caller sends requests of up to MaxLocs locations.                   *)
(***************************************************************************)
MalformedLocs ==
    { Loc(Empty, "a.py", 0, 0, 1, 5, FALSE),      \* the definition without a name
      Loc(Empty, "a.py", 2, 0, 3, 5, FALSE),      \* ok
      Loc(Empty, "a.py", 3, 5, 3, 6, FALSE),      \* after the last definition
      Loc(Empty, "b.py", 2, 2, 3, 13, FALSE) }    \* run of content 2
MalformedReqs == SeqsUpTo(MalformedLocs, MaxLocs)

InitMalformed ==
    /\ files = [p \in Paths |-> File(TRUE, IF p = "a.py" THEN 7 ELSE 2, 0, FALSE)]
    /\ cache = [p \in Paths |-> NoEntry]
    /\ pc = [s \in Slots |-> "idle"]
    /\ req = [s \in Slots |-> <<>>]
    /\ idx = [s \in Slots |-> 0]
    /\ ret = [s \in Slots |-> <<>>]
    /\ mt = [s \in Slots |-> 0]
    /\ tree = [s \in Slots |-> NoTree]
    /\ reads = [s \in Slots |-> 0]
    /\ search = [s \in Slots |-> NoSearch]

NextMalformed ==
    \/ Arrive(1)
    \/ Begin(1, MalformedReqs)
    \/ GetStat(1)
    \/ GetRead(1)
    \/ Finish(1)

SpecMalformed == InitMalformed /\ [][NextMalformed]_vars

(***************************************************************************)
(* The specification of the `symbols` handler: one caller asks for the     *)
(* call sites of a line range of a.py, whose content is one of four, or    *)
(* of b.py, which does not exist.  The handler reads and parses the file   *)
(* itself, without the tree cache, in one step of the event loop.          *)
(***************************************************************************)
SymbolContents == {2, 3, 5, 6}
SymbolCtxs ==
    {ContextLocation(p, a, b) : p \in Paths, a \in 0..MaxRow, b \in 0..MaxRow}

InitSymbols ==
    /\ \E c \in SymbolContents :
          files = [p \in Paths |-> IF p = "a.py" THEN File(TRUE, c, 0, FALSE)
                                   ELSE File(FALSE, 0, 0, FALSE)]
    /\ cache = [p \in Paths |-> NoEntry]
    /\ pc = [s \in Slots |-> "idle"]
    /\ req = [s \in Slots |-> <<>>]
    /\ idx = [s \in Slots |-> 0]
    /\ ret = [s \in Slots |-> <<>>]
    /\ mt = [s \in Slots |-> 0]
    /\ tree = [s \in Slots |-> NoTree]
    /\ reads = [s \in Slots |-> 0]
    /\ search = [s \in Slots |-> NoSearch]

\* the mutant takes the tree from the cache: the cached tree on a hit, a
\* parse that it stores otherwise
SymbolsCached(s, Ctxs) ==
    /\ pc[s] = "queued"
    /\ EventLoopFree(s)
    /\ \E ctx \in Ctxs :
          /\ req' = [req EXCEPT ![s] = <<ctx>>]
          /\ IF ~files[ctx.path].exists
             THEN /\ pc' = [pc EXCEPT ![s] = "ioerror"]
                  /\ UNCHANGED <<ret, tree, cache>>
             ELSE LET hit == /\ cache[ctx.path] # NoEntry
                             /\ files[ctx.path].mtime <= cache[ctx.path].mtime
                      c == IF hit THEN cache[ctx.path].tree.src
                           ELSE files[ctx.path].content
                  IN  /\ pc' = [pc EXCEPT ![s] = "done"]
                      /\ tree' = [tree EXCEPT ![s] = [id |-> 0, src |-> c]]
                      /\ cache' = IF hit THEN cache
                                  ELSE [cache EXCEPT ![ctx.path] =
                                          [mtime |-> files[ctx.path].mtime,
                                           tree |-> [id |-> @.tree.id + 1, src |-> c]]]
                      /\ ret' = [ret EXCEPT ![s] =
                                   SymbolsLoop(Parse(c), GetCalledFunctionsAndClasses(c),
                                               ctx, <<>>)]
    /\ UNCHANGED <<files, idx, mt, reads, search>>

\* symbols(contextLocation): open and read the file, run the query, filter
Symbols(s, Ctxs) ==
    /\ pc[s] = "queued"
    /\ EventLoopFree(s)
    /\ \E ctx \in Ctxs :
          /\ req' = [req EXCEPT ![s] = <<ctx>>]
          /\ IF ~files[ctx.path].exists
             THEN /\ pc' = [pc EXCEPT ![s] = "ioerror"]
                  /\ UNCHANGED <<ret, tree>>
             ELSE LET c == files[ctx.path].content
                  IN  /\ pc' = [pc EXCEPT ![s] = "done"]
                      /\ tree' = [tree EXCEPT ![s] = [id |-> 0, src |-> c]]
                      /\ ret' = [ret EXCEPT ![s] =
                                   SymbolsLoop(Parse(c), GetCalledFunctionsAndClasses(c),
                                               ctx, <<>>)]
    /\ UNCHANGED <<files, cache, idx, mt, reads, search>>

NextSymbols ==
    \/ Arrive(1)
    \/ Symbols(1, SymbolCtxs)
    \/ Finish(1)

SpecSymbols == InitSymbols /\ [][NextSymbols]_vars

(***************************************************************************)
(* The two handlers of main.py on one event loop: one caller sends         *)
(* `symbol_source` and `symbols` requests about a.py, while a.py is        *)
(* rewritten between contents 2 and 5, with and without a change of its    *)
(* modification time, deleted and created again.                           *)
(***************************************************************************)
BothContents == {2, 5}
BothReqs == {<<Loc(Empty, "a.py", 3, 2, 3, 13, FALSE)>>}
BothRows == {0, 3, 4}
BothCtxs == {ContextLocation("a.py", a, b) : a \in BothRows, b \in BothRows}

InitBoth ==
    /\ \E c \in BothContents :
          files = [p \in Paths |-> File(TRUE, IF p = "a.py" THEN c ELSE 2, 0, FALSE)]
    /\ cache = [p \in Paths |-> NoEntry]
    /\ pc = [s \in Slots |-> "idle"]
    /\ req = [s \in Slots |-> <<>>]
    /\ idx = [s \in Slots |-> 0]
    /\ ret = [s \in Slots |-> <<>>]
    /\ mt = [s \in Slots |-> 0]
    /\ tree = [s \in Slots |-> NoTree]
    /\ reads = [s \in Slots |-> 0]
    /\ search = [s \in Slots |-> NoSearch]

NextBoth ==
    \/ \E c \in BothContents : ModifyFile("a.py", c)
    \/ \E c \in BothContents : WriteSameTick("a.py", c)
    \/ DeleteFile("a.py")
    \/ \E c \in BothContents : CreateFile("a.py", c)
    \/ Arrive(1)
    \/ Begin(1, BothReqs)
    \/ GetStat(1)
    \/ GetRead(1)
    \/ Symbols(1, BothCtxs)
    \/ Finish(1)

SpecBoth == InitBoth /\ [][NextBoth]_vars

(***************************************************************************)
(* get_funcs of rag.py: a text search for `def NAME(` lists (file, line)   *)
(* hits; each hit is resolved on the file's tree, taken from the module's  *)
(* own TreeCache (the same code as main.py's), to the function definition  *)
(* around the hit line.  One caller; the files may change between any two  *)
(* system calls (the search, getmtime, open/read, the second getmtime).    *)
(* The directory holds a.py, which is edited between contents 1 and 4, and *)
(* b.py, of content 1, which is rewritten as it is; both can be deleted.   *)
(***************************************************************************)
RagContents == {1, 4}
RagNames == {sRun, sBeta, sGamma}

\* The rows of a content whose text holds `def NAME(`, with NAME: what the
\* pattern "[ \t]*def NAME\(" of the search matches, comments included
DefLines(c) ==
    CASE c = 1 -> << <<0, sAlpha>>, <<4, sBeta>>, <<5, sGamma>> >>
      [] c = 2 -> << <<2, sRun>>, <<4, sBeta>>, <<5, sHelper>> >>
      [] c = 4 -> << <<0, sRun>>, <<2, sRun>>, <<5, sRun>>, <<7, sRun>> >>
      [] c = 7 -> << <<2, sOk>> >>
      [] OTHER -> <<>>

\* (filepath, line) of a match record; line numbers of rg are 1-based
Hit(path, line) == [filepath |-> path, line |-> line]

\* the match records rg prints for one file, in line order
RgFile(p, name) ==
    IF ~files[p].exists THEN <<>>
    ELSE LET rows == SelectSeq(DefLines(files[p].content), LAMBDA d : d[2] = name)
         IN  [i \in 1..Len(rows) |-> Hit(p, rows[i][1] + 1)]

\* rg walks the directory in parallel: the files come in either order
PathOrders == {<<"a.py", "b.py">>, <<"b.py", "a.py">>}
RgOutput(order, name) == RgFile(order[1], name) \o RgFile(order[2], name)

\* each side of the pipeline `rg ... | jq ...` runs or fails (not installed,
\* exit status other than 0)
ToolOutcomes == {"ok", "error"}

\* subprocess.check_output(cmd, shell=True) raises CalledProcessError when
\* the shell's exit status is not 0: the status of a pipeline is the one of
\* its last command
PipelineFails(rg, jq) == jq = "error"

FunctionReference(filepath, line, text, ts) ==
    [filepath |-> filepath, line |-> line, text |-> text,
     last_modified_timestamp_epoch |-> ts]

\* the mutant resolves the hit at the first character of the line that is
\* not blank, up to the end of the line
HitRangeAtIndent(t, line) ==
    LET onRow == {k \in 1..Len(t) : t[k].s[1] = line - 1}
        col == IF onRow = {} THEN 0 ELSE t[MinOf(onRow)].s[2]
    IN  <<(<<line - 1, col>>), (<<line - 1, col>>)>>
\* (line - 1, 0), (line - 1, 1000)
HitRange(t, line) == <<(<<line - 1, 0>>), (<<line - 1, 1000>>)>>

\* The body of the loop of get_funcs after tree_cache.get, up to the name
\* test: a skip (`continue`), the definition found, or an exception
RagResolve(c, hit, name) ==
    LET t == Parse(c)
        range == HitRange(t, hit.line)
        node == WalkUp(t, NamedDescendantForPointRange(t, range[1], range[2]),
                       {"function_definition"})
    IN  IF node = 0 THEN Miss
        ELSE IF t[node].name = 0 THEN Raise
        ELSE IF ~IsSubstring(name, t[t[node].name].text) THEN Miss
        ELSE Found(node)

\* the mutant records a definition once
AppendRefOnce(funcs, r) ==
    IF \E i \in 1..Len(funcs) : funcs[i].filepath = r.filepath /\ funcs[i].line = r.line
    THEN funcs ELSE Append(funcs, r)
\* funcs.append(FunctionReference(...))
AppendRef(funcs, r) == Append(funcs, r)

InitRag ==
    /\ \E c \in RagContents :
          files = [p \in Paths |-> File(TRUE, IF p = "a.py" THEN c ELSE 1, 0, FALSE)]
    /\ cache = [p \in Paths |-> NoEntry]
    /\ pc = [s \in Slots |-> "idle"]
    /\ req = [s \in Slots |-> <<>>]
    /\ idx = [s \in Slots |-> 0]
    /\ ret = [s \in Slots |-> <<>>]
    /\ mt = [s \in Slots |-> 0]
    /\ tree = [s \in Slots |-> NoTree]
    /\ reads = [s \in Slots |-> 0]
    /\ search = [s \in Slots |-> NoSearch]

\* get_funcs(func_name, root_dir), up to the list func_locations: req[s]
RunSearch(s) ==
    /\ pc[s] = "queued"
    /\ \E name \in RagNames, order \in PathOrders, rg \in ToolOutcomes, jq \in ToolOutcomes :
          /\ search' = [search EXCEPT ![s] = [name |-> name, rg |-> rg, jq |-> jq]]
          /\ IF PipelineFails(rg, jq)
             THEN /\ pc' = [pc EXCEPT ![s] = "raised"]
                  /\ UNCHANGED <<req, idx>>
             ELSE LET hits == IF rg = "error" THEN <<>> ELSE RgOutput(order, name)
                  IN  /\ req' = [req EXCEPT ![s] = hits]
                      /\ idx' = [idx EXCEPT ![s] = 1]
                      /\ pc' = [pc EXCEPT ![s] = IF hits = <<>> THEN "done" ELSE "stat"]
    /\ UNCHANGED <<files, cache, ret, mt, tree, reads>>

\* the next hit of the loop, or the return
NextHit(s) ==
    /\ idx' = [idx EXCEPT ![s] = @ + 1]
    /\ pc' = [pc EXCEPT ![s] = IF idx[s] = Len(req[s]) THEN "done" ELSE "stat"]

\* the loop body of get_funcs on tree t, up to the second getmtime
RagResolved(s, t) ==
    LET out == RagResolve(t.src, req[s][idx[s]], search[s].name)
    IN  /\ tree' = [tree EXCEPT ![s] = t]
        /\ IF out = Raise
           THEN pc' = [pc EXCEPT ![s] = "raised"] /\ UNCHANGED idx
           ELSE IF out = Miss
           THEN NextHit(s)
           ELSE pc' = [pc EXCEPT ![s] = "stamp"] /\ UNCHANGED idx
        /\ UNCHANGED ret

\* tree_cache.get(filepath) of rag.py, first system call: os.path.getmtime
RagGetStat(s) ==
    /\ pc[s] = "stat"
    /\ LET p == req[s][idx[s]].filepath
       IN  IF ~files[p].exists
           THEN /\ pc' = [pc EXCEPT ![s] = "ioerror"]
                /\ UNCHANGED <<cache, idx, ret, mt, tree>>
           ELSE IF IsHit(p, files[p].mtime)
           THEN /\ RagResolved(s, cache[p].tree)
                /\ UNCHANGED <<cache, mt>>
           ELSE /\ pc' = [pc EXCEPT ![s] = "read"]
                /\ mt' = [mt EXCEPT ![s] = files[p].mtime]
                /\ UNCHANGED <<cache, idx, ret, tree>>
    /\ UNCHANGED <<files, req, reads, search>>

\* tree_cache.get(filepath) of rag.py, second system call: open, read; then
\* parse and store
RagGetRead(s) ==
    /\ pc[s] = "read"
    /\ LET p == req[s][idx[s]].filepath
       IN  IF ~files[p].exists
           THEN /\ pc' = [pc EXCEPT ![s] = "ioerror"]
                /\ UNCHANGED <<cache, idx, ret, mt, tree, reads>>
           ELSE LET t == [id |-> cache[p].tree.id + 1, src |-> files[p].content]
                IN  /\ reads' = [reads EXCEPT ![s] = @ + 1]
                    /\ cache' = [cache EXCEPT ![p] = [mtime |-> mt[s], tree |-> t]]
                    /\ mt' = [mt EXCEPT ![s] = 0]
                    /\ RagResolved(s, t)
    /\ UNCHANGED <<files, req, search>>

\* funcs.append(FunctionReference(..., os.path.getmtime(filepath)))
RagStamp(s) ==
    /\ pc[s] = "stamp"
    /\ LET hit == req[s][idx[s]]
           p == hit.filepath
           node == RagResolve(tree[s].src, hit, search[s].name).entry
       IN  IF ~files[p].exists
           THEN /\ pc' = [pc EXCEPT ![s] = "ioerror"]
                /\ UNCHANGED <<idx, ret>>
           ELSE /\ ret' = [ret EXCEPT ![s] =
                             AppendRef(@, FunctionReference(p,
                                           Parse(tree[s].src)[node].s[1],
                                           NodeText(tree[s].src, node),
                                           files[p].mtime))]
                /\ NextHit(s)
    /\ UNCHANGED <<files, cache, req, mt, tree, reads, search>>

NextRag ==
    \/ \E c \in RagContents : ModifyFile("a.py", c)
    \/ ModifyFile("b.py", 1)
    \/ \E p \in Paths : DeleteFile(p)
    \/ Arrive(1)
    \/ RunSearch(1)
    \/ RagGetStat(1)
    \/ RagGetRead(1)
    \/ RagStamp(1)
    \/ Finish(1)

SpecRag == InitRag /\ [][NextRag]_vars


(***************************************************************************)
(* Properties of the Tree Cache (specification Spec).                      *)
(***************************************************************************)
\* the path request s is getting, or has just got
PathOf(s) == req[s][IF idx[s] > Len(req[s]) THEN Len(req[s]) ELSE idx[s]].path

\* a step of request s
StepOf(s) == pc'[s] # pc[s] \/ idx'[s] # idx[s]

\* a step of request s in which tree_cache.get returns (the tree is tree'[s])
GetReturns(s) ==
    /\ pc[s] \in Running
    /\ idx'[s] = idx[s] + 1 \/ pc'[s] = "raised"

C2_CacheHit ==
    [][\A s \in Slots :
          LET p == req[s][idx[s]].path
          IN  /\ ( /\ pc[s] = "stat" /\ StepOf(s)
                   /\ files[p].exists
                   /\ cache[p] # NoEntry
                   /\ cache[p].mtime >= files[p].mtime )
                 => ( /\ GetReturns(s)
                      /\ tree'[s] = cache[p].tree
                      /\ reads' = reads
                      /\ cache' = cache )
              /\ ( /\ pc[s] = "read" /\ GetReturns(s)
                   /\ files[p].mtime = mt[s] )
                 => ( /\ cache'[p].tree = tree'[s]
                      /\ cache'[p].mtime >= files'[p].mtime )]_vars

\* a request was answered from the cache without reading the file, after
\* the file had been parsed once
C2_Witness ==
    \E s \in Slots :
        /\ pc[s] = "done"
        /\ req[s] # <<>>
        /\ reads[s] = 0
        /\ tree[s].id = 1
        /\ tree[s] = cache[PathOf(s)].tree

\* C3: a get of a path that has no entry, or whose file's modification
\* time is greater than the stored one, goes on to read the file; having
\* read it, it replaces the entry with (the modification time of its stat,
\* a new tree) and returns that tree, which is parsed from the content read.
C3_Invalidation ==
    [][\A s \in Slots :
          LET p == req[s][idx[s]].path
          IN  /\ ( /\ pc[s] = "stat" /\ StepOf(s)
                   /\ files[p].exists
                   /\ (cache[p] = NoEntry \/ files[p].mtime > cache[p].mtime) )
                 => ( /\ pc'[s] = "read"
                      /\ mt'[s] = files[p].mtime
                      /\ cache' = cache )
              /\ ( /\ pc[s] = "read" /\ StepOf(s)
                   /\ files[p].exists )
                 => ( /\ GetReturns(s)
                      /\ reads'[s] = reads[s] + 1
                      /\ tree'[s].src = files[p].content
                      /\ tree'[s].id # cache[p].tree.id
                      /\ cache'[p] = [mtime |-> mt[s], tree |-> tree'[s]] )]_vars

\* an entry was replaced by the parse of a modified file
C3_Witness ==
    \E s \in Slots :
        /\ pc[s] = "done"
        /\ req[s] # <<>>
        /\ reads[s] = 1
        /\ tree[s].id = 2
        /\ cache[PathOf(s)] = [mtime |-> 1, tree |-> tree[s]]
        /\ tree[s].src = files[PathOf(s)].content

\* C4: a store never replaces an entry whose modification time is greater
\* than the stored one, and no two requests are inside the handler (between
\* its entry and its return) at the same time, so the stat-compare-parse-
\* store sequences of two callers never interleave.
C4_NoRacingStores ==
    [][/\ \A p \in Paths :
              cache'[p] # cache[p] => cache[p].mtime <= cache'[p].mtime
       /\ \A s \in Slots, t \in Slots :
              (s # t /\ pc'[s] \in Running) => pc'[t] \notin Running]_vars

\* a get is between its stat and its read of a file that has an entry and
\* was modified since the stat, while another request waits
C4_Witness ==
    \E s \in Slots, t \in Slots :
        /\ pc[s] = "read"
        /\ pc[t] = "queued"
        /\ cache[PathOf(s)] # NoEntry
        /\ files[PathOf(s)].exists
        /\ files[PathOf(s)].mtime > mt[s]

\* C5: a get of a path that cannot be stat'd or read ends in an I/O error,
\* and the cache is the same after a failing get as before it: it is not
\* changed while a get is between its stat and its read, nor by the failure.
C5_FailureLeavesCache ==
    [][\A s \in Slots :
          /\ ( /\ pc[s] \in Running /\ StepOf(s)
               /\ ~files[req[s][idx[s]].path].exists )
             => pc'[s] = "ioerror"
          /\ (pc[s] = "read" /\ pc'[s] \in {"read", "ioerror"}) => cache' = cache
          /\ (pc[s] = "stat" /\ pc'[s] = "ioerror") => cache' = cache]_vars

\* a get failed on a file deleted between its stat and its read, and the
\* entries of both paths are still there
C5_Witness ==
    \E s \in Slots :
        /\ pc[s] = "ioerror"
        /\ mt[s] > 0
        /\ \A p \in Paths : cache[p] # NoEntry

(***************************************************************************)
(* Properties of the resolver (specification SpecResolve).  They are       *)
(* stated on a request of one location that has ended: tree[s] is the      *)
(* tree get returned, ret[s] the response.                                 *)
(***************************************************************************)
Single(s) == pc[s] \in {"done", "raised"} /\ Len(req[s]) = 1

DefKinds == {"function_definition", "class_definition"}
DefsOf(t) == {n \in 1..Len(t) : t[n].kind \in DefKinds}

StartOf(l) == <<l.startLine, l.startCol>>
EndOf(l) == <<l.endLine, l.endCol>>

\* the span of node n holds the start of l and does not end before its end
Covers(l, t, n) ==
    /\ PtLe(t[n].s, StartOf(l))
    /\ PtLt(StartOf(l), t[n].e)
    /\ PtLe(EndOf(l), t[n].e)

\* the range [start, end) of l, start <= end, lies fully inside the span
\* of node n
InsideSpan(l, t, n) == PtLe(StartOf(l), EndOf(l)) /\ Covers(l, t, n)

\* the range of l shares no position with the span of node n
Disjoint(l, t, n) ==
    \/ PtLt(StartOf(l), t[n].s) /\ PtLe(EndOf(l), t[n].s)
    \/ PtLe(t[n].e, StartOf(l))

\* the span of node a lies inside the span of node b
Within(t, a, b) == PtLe(t[b].s, t[a].s) /\ PtLe(t[a].e, t[b].e)

\* d is a definition the range of l is inside, and no narrower one is
Innermost(l, t, d) ==
    /\ d \in DefsOf(t)
    /\ InsideSpan(l, t, d)
    /\ \A d2 \in DefsOf(t) \ {d} : InsideSpan(l, t, d2) => ~Within(t, d2, d)

\* the same for a location whose end may lie before its start
InnermostCover(l, t, d) ==
    /\ d \in DefsOf(t)
    /\ Covers(l, t, d)
    /\ \A d2 \in DefsOf(t) \ {d} : Covers(l, t, d2) => ~Within(t, d2, d)

\* node a is a proper ancestor of node n
RECURSIVE IsAncestor(_, _, _)
IsAncestor(t, a, n) ==
    /\ t[n].parent # 0
    /\ (t[n].parent = a \/ IsAncestor(t, a, t[n].parent))

ClassAncestors(t, n) ==
    {a \in 1..Len(t) : t[a].kind = "class_definition" /\ IsAncestor(t, a, n)}

\* the response entry of node d of the tree of content c
ExpectedEntry(c, d) ==
    [start_line |-> Parse(c)[d].s[1], start_col |-> Parse(c)[d].s[2],
     text |-> [src |-> c, from |-> Parse(c)[d].s, to |-> Parse(c)[d].e]]

\* needle occurs in hay
Occurs(needle, hay) ==
    \E i \in 1..(Len(hay) + 1), j \in 0..Len(hay) :
        i <= j + 1 /\ SubSeq(hay, i, j) = needle

\* C6: with an empty name hint and expand_to_class false, a range fully
\* inside the span of a definition D and inside no narrower definition
\* resolves to exactly D: its start row, start column and text.
C6_Containment ==
    \A s \in Slots :
        (Single(s) /\ req[s][1].name = Empty /\ ~req[s][1].expand_to_class) =>
            \A d \in DefsOf(Parse(tree[s].src)) :
                Innermost(req[s][1], Parse(tree[s].src), d) =>
                    /\ pc[s] = "done"
                    /\ ret[s] = <<ExpectedEntry(tree[s].src, d)>>

\* a range in the body of helper, which is nested in beta and in Outer,
\* resolved to helper
C6_Witness ==
    \E s \in Slots :
        /\ Single(s)
        /\ tree[s].src = 2
        /\ req[s][1].name = Empty /\ ~req[s][1].expand_to_class
        /\ StartOf(req[s][1]) = <<6, 2>> /\ EndOf(req[s][1]) = <<6, 2>>
        /\ ret[s] = <<ExpectedEntry(2, 20)>>

\* C7: a range that shares no position with any definition (top-level
\* statements, a range past the end of the content, a file without
\* definitions) yields no entry, and the request ends without an error.
C7_Miss ==
    \A s \in Slots :
        ( /\ Single(s)
          /\ PtLe(StartOf(req[s][1]), EndOf(req[s][1]))
          /\ \A d \in DefsOf(Parse(tree[s].src)) :
                 Disjoint(req[s][1], Parse(tree[s].src), d) )
        => (pc[s] = "done" /\ ret[s] = <<>>)

\* a range in the import line between alpha and beta gave no entry
C7_Witness ==
    \E s \in Slots :
        /\ Single(s)
        /\ pc[s] = "done"
        /\ tree[s].src = 1
        /\ req[s][1].name = Empty
        /\ StartOf(req[s][1]) = <<3, 0>> /\ EndOf(req[s][1]) = <<3, 2>>
        /\ ret[s] = <<>>

\* C8: with expand_to_class set, a range whose nearest enclosing definition
\* is a function with a class among its ancestors (and whose name passes
\* the hint) resolves to the outermost such class: the class ancestor that
\* has no class ancestor itself.
C8_ClassWidening ==
    \A s \in Slots :
        (Single(s) /\ req[s][1].expand_to_class) =>
            LET t == Parse(tree[s].src)
            IN  \A d \in DefsOf(t) :
                    ( /\ Innermost(req[s][1], t, d)
                      /\ t[d].kind = "function_definition"
                      /\ ClassAncestors(t, d) # {}
                      /\ Occurs(req[s][1].name, t[t[d].name].text) )
                    => \E a \in ClassAncestors(t, d) :
                          /\ ClassAncestors(t, a) = {}
                          /\ pc[s] = "done"
                          /\ ret[s] = <<ExpectedEntry(tree[s].src, a)>>

\* a range in run, a method of Inner, which is nested in Outer, resolved
\* to Outer
C8_Witness ==
    \E s \in Slots :
        /\ Single(s)
        /\ tree[s].src = 2
        /\ req[s][1].expand_to_class
        /\ StartOf(req[s][1]) = <<2, 2>> /\ EndOf(req[s][1]) = <<3, 13>>
        /\ ret[s] = <<ExpectedEntry(2, 2)>>

\* C9: when the range has an enclosing definition, a non-empty name hint
\* yields an entry if and only if the hint occurs in the name of that
\* definition, and an empty hint always yields one.
C9_NameHint ==
    \A s \in Slots :
        Single(s) =>
            LET t == Parse(tree[s].src)
            IN  \A d \in DefsOf(t) :
                    Innermost(req[s][1], t, d) =>
                        /\ pc[s] = "done"
                        /\ Len(ret[s]) = 1 <=>
                              ( \/ req[s][1].name = Empty
                                \/ Occurs(req[s][1].name, t[t[d].name].text) )
                        /\ Len(ret[s]) <= 1

\* the hint gamma, which occurs only in the comment in the body of beta,
\* gave no entry for the range of that comment
C9_Witness ==
    \E s \in Slots :
        /\ Single(s)
        /\ pc[s] = "done"
        /\ tree[s].src = 1
        /\ req[s][1].name = sGamma
        /\ StartOf(req[s][1]) = <<5, 1>> /\ EndOf(req[s][1]) = <<5, 13>>
        /\ ret[s] = <<>>

\* the entries the locations of q resolve to on the files as they are, in
\* the order of q
RECURSIVE Resolvable(_)
Resolvable(q) ==
    IF q = <<>> THEN <<>>
    ELSE LET l == q[Len(q)]
             t == Parse(files[l.path].content)
             front == Resolvable(SubSeq(q, 1, Len(q) - 1))
         IN  IF \E d \in DefsOf(t) :
                    /\ InnermostCover(l, t, d)
                    /\ (l.name = Empty \/ Occurs(l.name, t[t[d].name].text))
             THEN LET d == CHOOSE d \in DefsOf(t) : InnermostCover(l, t, d)
                      cs == ClassAncestors(t, d)
                      n == IF l.expand_to_class /\ t[d].kind = "function_definition"
                              /\ cs # {}
                           THEN CHOOSE a \in cs : ClassAncestors(t, a) = {}
                           ELSE d
                  IN  Append(front, ExpectedEntry(files[l.path].content, n))
             ELSE front

\* C10: the response holds one entry for each location that resolved, in
\* the order of the request, and nothing for the others; it is never
\* longer than the request.
C10_ResponseOrder ==
    \A s \in Slots :
        /\ pc[s] = "done" =>
              /\ ret[s] = Resolvable(req[s])
              /\ Len(ret[s]) <= Len(req[s])
        /\ pc[s] = "stat" => ret[s] = Resolvable(SubSeq(req[s], 1, idx[s] - 1))

\* a request of two locations, the first of which did not resolve, was
\* answered with the entry of the second alone
C10_Witness ==
    \E s \in Slots :
        /\ pc[s] = "done"
        /\ Len(req[s]) = 2
        /\ req[s][1] = Loc(Empty, "a.py", 3, 0, 3, 2, FALSE)
        /\ req[s][2] = Loc(Empty, "b.py", 3, 2, 3, 13, TRUE)
        /\ files["a.py"].content = 1
        /\ ret[s] = <<ExpectedEntry(2, 2)>>

(***************************************************************************)
(* Claims about the `symbols` handler, on its responses (SpecSymbols).     *)
(***************************************************************************)
\* The identifiers a call names: the first child of a call, or the last
\* child of an attribute that is the first child of a call
FirstChild(t, n) == t[n].parent # 0 /\ \A k \in Children(t, t[n].parent) : n <= k
LastChild(t, n) == t[n].parent # 0 /\ \A k \in Children(t, t[n].parent) : k <= n
IsCallee(t, n) ==
    /\ t[n].kind = "identifier"
    /\ t[n].parent # 0
    /\ \/ t[t[n].parent].kind = "call" /\ FirstChild(t, n)
       \/ /\ t[t[n].parent].kind = "attribute" /\ LastChild(t, n)
          /\ FirstChild(t, t[n].parent)
          /\ t[t[t[n].parent].parent].kind = "call"
Callees(t) == {n \in 1..Len(t) : IsCallee(t, n)}

\* the response of slot s to a `symbols` request
SymbolsReturns(s) == pc[s] = "done" /\ Len(req[s]) = 1 /\ tree[s].id = 0

\* C11: no call site of a `symbols` response has a built-in name, be the
\* call direct or an attribute call, and a source that calls built-in names
\* only yields the empty list.
C11_BuiltinsExcluded ==
    \A s \in Slots :
        SymbolsReturns(s) =>
            LET t == Parse(tree[s].src)
            IN  /\ \A i \in 1..Len(ret[s]) : ret[s][i][1] \notin BuiltinNames
                /\ (\A n \in Callees(t) : t[n].text \in BuiltinNames) => ret[s] = <<>>

\* content 5, rows 0..3: f three times, neither print nor len
C11_Witness ==
    \E s \in Slots :
        /\ SymbolsReturns(s)
        /\ tree[s].src = 5
        /\ req[s][1].start_line = 0 /\ req[s][1].end_line = 3
        /\ ret[s] = << <<sF, 0, 6>>, <<sF, 1, 4>>, <<sF, 2, 0>> >>

\* C12: a call site of a name that is not built-in, on row r, is in the
\* response exactly when start_line <= r <= end_line, both ends included;
\* with start_line > end_line the response is empty.
C12_LineFilter ==
    \A s \in Slots :
        SymbolsReturns(s) =>
            LET t == Parse(tree[s].src)
                ctx == req[s][1]
            IN  /\ \A n \in Callees(t) :
                      t[n].text \notin BuiltinNames =>
                          ((\E i \in 1..Len(ret[s]) : ret[s][i] = CallSite(t, n))
                           <=> (ctx.start_line <= t[n].s[1] /\ t[n].s[1] <= ctx.end_line))
                /\ ctx.start_line > ctx.end_line => ret[s] = <<>>

\* content 5, rows 1..2: the call sites on the first and on the last row
C12_Witness ==
    \E s \in Slots :
        /\ SymbolsReturns(s)
        /\ tree[s].src = 5
        /\ req[s][1].start_line = 1 /\ req[s][1].end_line = 2
        /\ ret[s] = << <<sF, 1, 4>>, <<sF, 2, 0>> >>

\* C13: the response holds one call site per match, duplicates included: a
\* name that is not built-in and is called k times in the range has k
\* entries.
C13_NoDeduplication ==
    \A s \in Slots :
        SymbolsReturns(s) =>
            LET t == Parse(tree[s].src)
                ctx == req[s][1]
                InRange(n) == ctx.start_line <= t[n].s[1] /\ t[n].s[1] <= ctx.end_line
            IN  \A m \in Callees(t) :
                    t[m].text \notin BuiltinNames =>
                        Cardinality({i \in 1..Len(ret[s]) : ret[s][i][1] = t[m].text})
                        = Cardinality({n \in Callees(t) :
                                          t[n].text = t[m].text /\ InRange(n)})

\* content 5, all rows: f three times and h once
C13_Witness ==
    \E s \in Slots :
        /\ SymbolsReturns(s)
        /\ tree[s].src = 5
        /\ req[s][1].start_line = 0 /\ req[s][1].end_line = 4
        /\ Len(ret[s]) = 4
        /\ Cardinality({i \in 1..4 : ret[s][i][1] = sF}) = 3

(***************************************************************************)
(* Claims about get_funcs, on the steps of its loop (SpecRag).             *)
(***************************************************************************)
\* the hit slot s is working on
RagHit(s) == req[s][idx[s]]

\* in this step slot s takes the tree of its hit and resolves the hit on it
ResolvesHit(s) ==
    /\ pc[s] \in {"stat", "read"}
    /\ idx'[s] # idx[s] \/ pc'[s] \in {"stamp", "raised"}

\* in this step slot s emits the record of its hit
EmitsRef(s) == pc[s] = "stamp" /\ pc'[s] \in {"stat", "done"}

LastOf(q) == q[Len(q)]

\* the function definitions whose `def` is on a 1-based line and whose name
\* contains a name
DefsOnLine(t, line, name) ==
    {f \in 1..Len(t) : /\ t[f].kind = "function_definition"
                       /\ t[f].s[1] = line - 1
                       /\ t[f].name # 0
                       /\ Occurs(name, t[t[f].name].text)}

\* C14: a hit on the line of the `def` of a function F whose name contains
\* the searched name yields a FunctionReference with F's path, start line
\* and text, for a top-level function and a method, on one line or more.
C14_DefLineHitEmitted ==
    [][\A s \in Slots :
          /\ ResolvesHit(s) =>
                (DefsOnLine(Parse(tree'[s].src), RagHit(s).line, search[s].name) # {}
                    => pc'[s] = "stamp")
          /\ EmitsRef(s) =>
                LET t == Parse(tree[s].src)
                    fs == DefsOnLine(t, RagHit(s).line, search[s].name)
                IN  fs # {} =>
                        \E f \in fs :
                            /\ LastOf(ret'[s]).filepath = RagHit(s).filepath
                            /\ LastOf(ret'[s]).line = RagHit(s).line - 1
                            /\ LastOf(ret'[s]).text = NodeText(tree[s].src, f)]_vars

\* C15: the records come in the order of the hits, one more at the end of
\* the list for every hit that resolves, also when an equal record is in
\* the list already; the hits are taken one after the other.
C15_HitOrder ==
    [][\A s \in Slots :
          /\ EmitsRef(s) =>
                /\ Len(ret'[s]) = Len(ret[s]) + 1
                /\ SubSeq(ret'[s], 1, Len(ret[s])) = ret[s]
                /\ LastOf(ret'[s]).filepath = RagHit(s).filepath
                /\ idx'[s] = idx[s] + 1
          /\ ResolvesHit(s) => ret'[s] = ret[s] /\ idx'[s] \in {idx[s], idx[s] + 1}
          /\ (pc[s] \in {"stat", "read", "stamp"} /\ ~EmitsRef(s)) => ret'[s] = ret[s]]_vars

\* two hits (the `def` line and a comment in the body) gave the same
\* definition twice
C15_Witness ==
    \E s \in Slots :
        /\ pc[s] = "done"
        /\ search[s].name = sRun
        /\ Len(ret[s]) >= 2
        /\ req[s][1].line = 1 /\ req[s][2].line = 3
        /\ ret[s][1] = ret[s][2]
        /\ ret[s][1].text = NodeText(4, 2)

\* C16: when the text search fails (a tool is missing or exits with a
\* status other than 0), get_funcs ends with an exception and returns no
\* list, neither a partial nor an empty one.
C16_SearchFailureAborts ==
    \A s \in Slots :
        (search[s].rg = "error" \/ search[s].jq = "error") => pc[s] = "raised"

\* C18: the modification time of a FunctionReference is the one stored in
\* the cache entry whose tree gave the record's text and start line, also
\* when the file changes during the search.
C18_SnapshotMtime ==
    [][\A s \in Slots :
          EmitsRef(s) =>
              LastOf(ret'[s]).last_modified_timestamp_epoch
              = cache[RagHit(s).filepath].mtime]_vars

\* the deepest node that spans the whole line (column 0 to column 1000) of
\* a 0-based row, 0 when not even the root does
CoveringNode(t, row) ==
    LET spans == {n \in 1..Len(t) : /\ PtLe(t[n].s, <<row, 0>>)
                                    /\ PtLe(<<row, 1000>>, t[n].e)}
    IN  IF spans = {} THEN 0 ELSE MaxOf(spans)

\* the nearest function definition that is node n or an ancestor of it
NearestFunction(t, n) ==
    LET fs == {f \in 1..Len(t) : /\ t[f].kind = "function_definition"
                                 /\ f = n \/ IsAncestor(t, f, n)}
    IN  IF n = 0 \/ fs = {} THEN 0 ELSE MaxOf(fs)

\* the function definition expected for a hit on a row of a content
NearestFunctionAt ==
    [c \in RagContents |->
        [row \in 0..MaxRow |-> NearestFunction(Parse(c), CoveringNode(Parse(c), row))]]

\* C19: a FunctionReference is the nearest function definition at or above
\* the node that covers the hit line, and its name contains the searched
\* name; a hit with no such function definition, or with one of another
\* name, is skipped without an error; a class is never emitted.
C19_NearestFunction ==
    [][\A s \in Slots :
          /\ ResolvesHit(s) =>
                LET t == Parse(tree'[s].src)
                    f == NearestFunctionAt[tree'[s].src][RagHit(s).line - 1]
                IN  IF f # 0 /\ t[f].name # 0 /\ Occurs(search[s].name, t[t[f].name].text)
                    THEN pc'[s] = "stamp"
                    ELSE /\ pc'[s] \in {"stat", "done"}
                         /\ idx'[s] = idx[s] + 1
                         /\ ret'[s] = ret[s]
          /\ EmitsRef(s) =>
                LET t == Parse(tree[s].src)
                    f == NearestFunctionAt[tree[s].src][RagHit(s).line - 1]
                IN  /\ f # 0
                    /\ t[f].kind = "function_definition"
                    /\ Occurs(search[s].name, t[t[f].name].text)
                    /\ LastOf(ret'[s]).filepath = RagHit(s).filepath
                    /\ LastOf(ret'[s]).line = t[f].s[1]
                    /\ LastOf(ret'[s]).text = NodeText(tree[s].src, f)]_vars

\* a search for run over content 4: the hits on the `def` line and on the
\* comment are emitted as the top-level run, the hits on the method's line
\* (in the class body) and on the one-line function (at module level) are
\* skipped
C19_Witness ==
    \E s \in Slots :
        /\ pc[s] = "done"
        /\ search[s].name = sRun
        /\ Len(req[s]) = 4
        /\ \A i \in 1..4 : req[s][i].filepath = "a.py"
        /\ Len(ret[s]) = 2
        /\ \A i \in 1..2 : ret[s][i].line = 0 /\ ret[s][i].text = NodeText(4, 2)
        /\ tree[s].src = 4

(***************************************************************************)
(* Claims about the resolver, continued.                                   *)
(***************************************************************************)
\* the entries of the locations of q whose innermost definition has a name
RECURSIVE NamedEntries(_)
NamedEntries(q) ==
    IF q = <<>> THEN <<>>
    ELSE LET l == q[Len(q)]
             c == files[l.path].content
             t == Parse(c)
             front == NamedEntries(SubSeq(q, 1, Len(q) - 1))
             ds == {d \in DefsOf(t) : InnermostCover(l, t, d) /\ t[d].name # 0}
         IN  IF ds = {} THEN front
             ELSE Append(front, ExpectedEntry(c, CHOOSE d \in ds : TRUE))

C20_ExpandNoOp ==
    \A s \in Slots :
        (Single(s) /\ req[s][1].expand_to_class) =>
            LET t == Parse(tree[s].src)
                l == req[s][1]
                unset == ResolveLoc(tree[s].src, [l EXCEPT !.expand_to_class = FALSE])
            IN  \A d \in DefsOf(t) :
                    ( /\ Innermost(l, t, d)
                      /\ t[d].kind = "class_definition" \/ ClassAncestors(t, d) = {} )
                    => /\ pc[s] = "done"
                       /\ ret[s] = IF unset.kind = "found" THEN <<unset.entry>> ELSE <<>>
                       /\ Occurs(l.name, t[t[d].name].text)
                             => ret[s] = <<ExpectedEntry(tree[s].src, d)>>

\* a range in the header of Inner, a class nested in Outer, with
\* expand_to_class set, resolved to Inner
C20_Witness ==
    \E s \in Slots :
        /\ Single(s)
        /\ tree[s].src = 2
        /\ req[s][1].expand_to_class
        /\ StartOf(req[s][1]) = <<1, 1>> /\ EndOf(req[s][1]) = <<1, 2>>
        /\ ret[s] = <<ExpectedEntry(2, 5)>>

(***************************************************************************)
(* Claims about the cache, continued (Spec).                               *)
(***************************************************************************)
\* C21: no step removes an entry of the cache, and an entry changes only
\* in the step in which a get of its own path has read the file: the new
\* entry holds the next parse of that path.  The set of cached paths only
\* grows.
C21_NoEviction ==
    [][\A p \in Paths :
          /\ cache[p] # NoEntry => cache'[p] # NoEntry
          /\ cache'[p] # cache[p] =>
                \E s \in Slots :
                    /\ pc[s] = "read"
                    /\ req[s][idx[s]].path = p
                    /\ pc'[s] # "read"
                    /\ cache'[p].tree.id = cache[p].tree.id + 1
                    /\ cache'[p].tree = tree'[s]
                    /\ \A q \in Paths \ {p} : cache'[q] = cache[q]]_vars

\* both paths are cached and the entry of a.py is the second parse of it
C21_Witness ==
    /\ cache["a.py"] # NoEntry
    /\ cache["a.py"].tree.id = 2
    /\ cache["b.py"] # NoEntry
    /\ cache["b.py"].tree.id = 1

\* C22: the modification time of an entry is the one the get read before it
\* read the content, so it is never greater than the file's, neither when
\* the content is read nor later; when the file was modified between the
\* two system calls, the entry stored is one the hit test rejects at once,
\* so that the next get parses again.
C22_StoredMtimeIsStat ==
    /\ [](\A p \in Paths : cache[p] # NoEntry => cache[p].mtime <= files[p].mtime)
    /\ [][\A s \in Slots :
             (pc[s] = "read" /\ pc'[s] \notin {"read", "ioerror"}) =>
                 LET p == req[s][idx[s]].path
                 IN  /\ cache'[p].mtime = mt[s]
                     /\ cache'[p].mtime <= files[p].mtime
                     /\ cache'[p].tree.src = files[p].content
                     /\ mt[s] < files[p].mtime =>
                           ~(files'[p].mtime <= cache'[p].mtime)]_vars

\* a get has read the modification time, the file was modified since, and
\* the get is about to read the content
C22_Witness ==
    \E s \in Slots :
        /\ pc[s] = "read"
        /\ files[req[s][idx[s]].path].exists
        /\ mt[s] < files[req[s][idx[s]].path].mtime

(***************************************************************************)
(* Claims about the resolver, on responses to one location (SpecResolve).  *)
(***************************************************************************)
\* C23: with expand_to_class set and a hint, a range whose nearest
\* enclosing definition is a method resolves by the method's name: to the
\* outermost class when the hint occurs in the name of the method, be it
\* in the name of the class or not, and to nothing when it does not, even
\* when it occurs in the name of the class.
C23_HintBeforeWidening ==
    \A s \in Slots :
        (Single(s) /\ req[s][1].expand_to_class /\ req[s][1].name # Empty) =>
            LET t == Parse(tree[s].src)
            IN  \A d \in DefsOf(t) :
                    ( /\ Innermost(req[s][1], t, d)
                      /\ t[d].kind = "function_definition"
                      /\ ClassAncestors(t, d) # {} )
                    => /\ pc[s] = "done"
                       /\ IF Occurs(req[s][1].name, t[t[d].name].text)
                          THEN \E a \in ClassAncestors(t, d) :
                                  /\ ClassAncestors(t, a) = {}
                                  /\ ret[s] = <<ExpectedEntry(tree[s].src, a)>>
                          ELSE ret[s] = <<>>

\* the hint Out, which occurs in Outer and not in run, gave nothing for a
\* range in the method run
C23_Witness ==
    \E s \in Slots :
        /\ Single(s)
        /\ pc[s] = "done"
        /\ tree[s].src = 2
        /\ req[s][1].expand_to_class
        /\ req[s][1].name = sOut
        /\ StartOf(req[s][1]) = <<3, 2>> /\ EndOf(req[s][1]) = <<3, 13>>
        /\ ret[s] = <<>>

\* the span of node n holds both ends of the range of l
HoldsBothEnds(l, t, n) ==
    /\ PtLe(t[n].s, StartOf(l)) /\ PtLe(StartOf(l), t[n].e)
    /\ PtLe(t[n].s, EndOf(l)) /\ PtLe(EndOf(l), t[n].e)

\* the entry of a response to one location is the entry of a function or
\* class definition whose span holds both ends of the range
EntryHoldsRange(s) ==
    LET t == Parse(tree[s].src)
    IN  \A i \in 1..Len(ret[s]) :
            \E d \in DefsOf(t) :
                /\ ret[s][i] = ExpectedEntry(tree[s].src, d)
                /\ HoldsBothEnds(req[s][1], t, d)

\* C24 as stated: every entry returned describes a function or class
\* definition whose span fully contains the queried range, with and
\* without class widening.
C24_EntryContainsRange ==
    \A s \in Slots : (Single(s) /\ pc[s] = "done") => EntryHoldsRange(s)

\* C24, amended: the same for a queried range whose end is not before its
\* start.
C24_EntryContainsProperRange ==
    \A s \in Slots :
        (Single(s) /\ pc[s] = "done" /\ PtLe(StartOf(req[s][1]), EndOf(req[s][1])))
            => EntryHoldsRange(s)

\* the range from the first to the last row of beta of content 1 gave beta
C24_Witness ==
    \E s \in Slots :
        /\ Single(s)
        /\ tree[s].src = 1
        /\ StartOf(req[s][1]) = <<4, 0>> /\ EndOf(req[s][1]) = <<6, 2>>
        /\ ret[s] = <<ExpectedEntry(1, 9)>>

(***************************************************************************)
(* Claims about the `symbols` handler next to the cache (SpecBoth).        *)
(***************************************************************************)
\* the step of slot s is a run of the `symbols` handler
SymbolsStep(s) ==
    /\ pc[s] = "queued"
    /\ pc'[s] \in {"done", "ioerror"}
    /\ req'[s] # <<>>

\* C25: a run of the `symbols` handler leaves the cache as it is, and its
\* response is the call sites of the content the file has in that step,
\* whatever tree the cache holds for the path.
C25_SymbolsBypassCache ==
    [][\A s \in Slots :
          SymbolsStep(s) =>
              LET ctx == req'[s][1]
                  t == Parse(files[ctx.path].content)
              IN  /\ cache' = cache
                  /\ pc'[s] = "done" <=> files[ctx.path].exists
                  /\ pc'[s] = "done" =>
                        /\ tree'[s].src = files[ctx.path].content
                        /\ {ret'[s][i] : i \in 1..Len(ret'[s])}
                           = {CallSite(t, n) : n \in
                                {k \in Callees(t) :
                                    /\ t[k].text \notin BuiltinNames
                                    /\ ctx.start_line <= t[k].s[1]
                                    /\ t[k].s[1] <= ctx.end_line}}]_vars

\* the call sites of content 5 were listed while the cache held, as a hit
\* for the file's modification time, the tree of content 2
C25_Witness ==
    \E s \in Slots :
        /\ pc[s] = "done"
        /\ tree[s] = [id |-> 0, src |-> 5]
        /\ req[s][1].start_line = 0 /\ req[s][1].end_line = 4
        /\ Len(ret[s]) = 4
        /\ files["a.py"].exists /\ files["a.py"].content = 5
        /\ cache["a.py"] # NoEntry
        /\ cache["a.py"].tree.src = 2
        /\ files["a.py"].mtime <= cache["a.py"].mtime

====
